---- MODULE Spec2Model ----
(***************************************************************************)
(* Model of master_analysis.py: the survey cleaning routine                *)
(* clean_and_process, its two invocations (Silent, Auditory), the combined *)
(* hypothesis tests and the exploratory moderator analysis.                *)
(*                                                                         *)
(* A table is what a CSV file holds: a set of column names and a sequence  *)
(* of rows of raw text cells.  A numeric cell is a sequence of characters, *)
(* a date cell is a <<year, month, day>> triple (<<>> is an empty cell).   *)
(* The values of the nine flow items only feed Flow_Score, which only      *)
(* feeds library calls; the model keeps the presence of those columns (a   *)
(* missing one raises KeyError) and not their cell values.  Calls into     *)
(* scipy, seaborn, matplotlib and statsmodels either return or raise.      *)
(***************************************************************************)
EXTENDS Integers, Sequences, FiniteSets, TLC

\* ---------------------------------------------------------------- bounds
\* Rows of a table that may deviate from a fully valid response.
MaxVaried == 1
\* Fully valid responses appended to a table.
MaxPad == 6

\* --------------------------------------------------------- configuration
ATTENTION_CHECK_TARGET == 5
MIN_DURATION_SECONDS == 90
SHOPPING_COL == "Q5"
MIN_SHOPPING_FREQ == 6
AUDIO_TARGET_VAL == 3
SILENT_TARGET_VAL == 5
flow_items == <<"Q2_1", "Q2_2", "Q2_3", "Q2_4", "Q2_5", "Q2_6", "Q2_7", "Q2_9", "Q2_10">>
attn_col == "Q2_8"
manip_col == "Q1"
DURATION_COL == "Duration (in seconds)"
file_soundless == "Qualtrics_Survey_Soundless.csv"
file_sound == "Qualtrics_Survey_Sound.csv"
SILENT_CUTOFF == <<2026, 1, 1>>
AUDIO_CUTOFF == <<2026, 2, 1>>
\* len(df_all) > 10 in the moderator guard
MODERATOR_MIN_ROWS == 10
\* len(df) < 2 in the insufficient-data guard
MIN_GROUP_SIZE == 2

\* ------------------------------------------------------------ conversions
Digits == {"0", "1", "2", "3", "4", "5", "6", "7", "8", "9"}

DigitVal(c) ==
    CASE c = "0" -> 0 [] c = "1" -> 1 [] c = "2" -> 2 [] c = "3" -> 3
      [] c = "4" -> 4 [] c = "5" -> 5 [] c = "6" -> 6 [] c = "7" -> 7
      [] c = "8" -> 8 [] c = "9" -> 9

RECURSIVE ParseDigits(_)
ParseDigits(s) ==
    IF s = <<>> THEN 0
    ELSE 10 * ParseDigits(SubSeq(s, 1, Len(s) - 1)) + DigitVal(s[Len(s)])

\* A float: either NaN (missing) or a number.
NaN == [isnan |-> TRUE, v |-> 0]
Num(n) == [isnan |-> FALSE, v |-> n]

\* pd.to_numeric(..., errors='coerce') on one cell: text that is not a
\* number, and an empty cell, become NaN; nothing raises.
ToNumeric(cell) ==
    IF cell # <<>> /\ \A i \in 1..Len(cell) : cell[i] \in Digits
    THEN Num(ParseDigits(cell))
    ELSE NaN

\* Comparisons of a float column with a number: False on NaN.
EqNum(a, k) == ~a.isnan /\ a.v = k
GeNum(a, k) == ~a.isnan /\ a.v >= k
LeNum(a, k) == ~a.isnan /\ a.v <= k

\* A timestamp: NaT (missing) or an ordinal that orders dates.
NaT == [isnat |-> TRUE, ord |-> 0]
Timestamp(d) == [isnat |-> FALSE, ord |-> d[1] * 10000 + d[2] * 100 + d[3]]

\* pd.to_datetime on one cell raises on text that is not a date.
DateParses(cell) ==
    cell = <<>> \/ (cell[2] \in 1..12 /\ cell[3] \in 1..31)

ToDatetime(cell) == IF cell = <<>> THEN NaT ELSE Timestamp(cell)

\* Series >= 'YYYY-MM-DD': False on NaT.
GeDate(t, cutoff) == ~t.isnat /\ t.ord >= Timestamp(cutoff).ord

\* ------------------------------------------------------------------ state
VARIABLES
    fs,         \* the file system: file name -> table (the input, never written)
    pc,         \* position of the script
    bound,      \* names bound at module level (what locals() holds)
    df_silent,  \* cleaned Silent rows, once bound
    df_audio,   \* cleaned Auditory rows, once bound
    df_all,     \* concatenation of the two, once bound
    exc,        \* the exception in flight, NoExc when none
    out,        \* lines printed so far
    calls       \* calls made into scipy / seaborn / matplotlib / statsmodels

vars == <<fs, pc, bound, df_silent, df_audio, df_all, exc, out, calls>>

NoExc == [type |-> "none", detail |-> ""]
Exc(t, d) == [type |-> t, detail |-> d]

\* One printed block: its kind, the label or message, and numbered lines.
Msg(kind, text, detail, lines) ==
    [kind |-> kind, text |-> text, detail |-> detail, lines |-> lines]

\* ----------------------------------------------------- clean_and_process
cols_to_numeric ==
    flow_items \o <<attn_col, manip_col, DURATION_COL, "Finished", SHOPPING_COL>>

\* The columns whose cells the model carries.
CellCols == {"RecordedDate", "Finished", DURATION_COL, attn_col, manip_col, SHOPPING_COL}
NumericCellCols == CellCols \ {"RecordedDate"}

\* Every column the script reads.
AllCols == CellCols \cup {flow_items[i] : i \in 1..Len(flow_items)}

\* Variant: a file that cannot be loaded is read as an empty table.
ReadCsvFallback(file) ==
    IF fs[file].status # "ok"
    THEN [raised |-> FALSE, exc |-> NoExc, cols |-> AllCols, rows |-> <<>>]
    ELSE [raised |-> FALSE, exc |-> NoExc, cols |-> fs[file].cols, rows |-> fs[file].rows]

\* pd.read_csv: raises when the file is missing or cannot be parsed.
ReadCsv(file) ==
    IF fs[file].status = "missing"
    THEN [raised |-> TRUE, exc |-> Exc("FileNotFoundError", file), cols |-> {}, rows |-> <<>>]
    ELSE IF fs[file].status = "unparseable"
    THEN [raised |-> TRUE, exc |-> Exc("ParserError", file), cols |-> {}, rows |-> <<>>]
    ELSE [raised |-> FALSE, exc |-> NoExc, cols |-> fs[file].cols, rows |-> fs[file].rows]

\* df[col] on a column the frame does not have raises KeyError(col).
FirstMissing(names, cols) ==
    LET I == {i \in 1..Len(names) : names[i] \notin cols}
    IN  IF I = {} THEN "" ELSE names[CHOOSE i \in I : \A j \in I : i <= j]

\* df['RecordedDate'] = pd.to_datetime(df['RecordedDate'])
ParseDates(rows) ==
    [i \in 1..Len(rows) |->
        [rows[i] EXCEPT !["RecordedDate"] = ToDatetime(@)]]

\* the cols_to_numeric loop, restricted to the carried columns
CoerceNumeric(rows) ==
    [i \in 1..Len(rows) |->
        [c \in DOMAIN rows[i] |->
            IF c \in NumericCellCols THEN ToNumeric(rows[i][c]) ELSE rows[i][c]]]

DatePred(r, cutoff) == GeDate(r["RecordedDate"], cutoff)
FinishedPred(r) == EqNum(r["Finished"], 1)
DurationPred(r) == GeNum(r[DURATION_COL], MIN_DURATION_SECONDS)
AttentionPred(r) == EqNum(r[attn_col], ATTENTION_CHECK_TARGET)
ManipulationPred(r, target) == EqNum(r[manip_col], target)
FrequencyPred(r) == LeNum(r[SHOPPING_COL], MIN_SHOPPING_FREQ)

DateFilter(df, start_date_cutoff) ==
    SelectSeq(df, LAMBDA r : DatePred(r, start_date_cutoff))
FinishedFilter(df) == SelectSeq(df, FinishedPred)
\* Variant: the duration stage also loses the first row of its frame.
DurationFilterSkipFirst(df) ==
    SelectSeq(IF df = <<>> THEN df ELSE Tail(df), DurationPred)
DurationFilter(df) == SelectSeq(df, DurationPred)
AttentionFilter(df) == SelectSeq(df, AttentionPred)
\* Variant: the stage compares with the Silent target whatever it is passed.
ManipulationFilterGlobal(df, target_manipulation_val) ==
    SelectSeq(df, LAMBDA r : ManipulationPred(r, SILENT_TARGET_VAL))
ManipulationFilter(df, target_manipulation_val) ==
    SelectSeq(df, LAMBDA r : ManipulationPred(r, target_manipulation_val))
\* Variant: the stage keeps what is not above the bound, NaN included.
FrequencyFilterNegated(df) ==
    SelectSeq(df, LAMBDA r : ~(~r[SHOPPING_COL].isnan /\ r[SHOPPING_COL].v > MIN_SHOPPING_FREQ))
FrequencyFilter(df) == SelectSeq(df, FrequencyPred)

\* df_clean['Condition'] = label (Flow_Score is not carried)
TagCondition(df, label) ==
    [i \in 1..Len(df) |-> df[i] @@ ("Condition" :> label)]

CleanRaise(e) == [raised |-> TRUE, exc |-> e, df |-> <<>>, report |-> <<>>]

\* The numbered lines of the cleaning report, in print order.
CleaningReport(n_original, dropped_pilot, dropped_speed, dropped_freq, dropped_attn, dropped_manip, final_n) ==
    << <<"Original N", n_original>>,
       <<"Date Filter Removed", dropped_pilot>>,
       <<"Speedsters Removed", dropped_speed>>,
       <<"Infrequent Shoppers Removed", dropped_freq>>,
       <<"Attention Check Failed", dropped_attn>>,
       <<"Manipulation Check Failed", dropped_manip>>,
       <<"FINAL VALID N", final_n>> >>

clean_and_process(filename, label, start_date_cutoff, target_manipulation_val) ==
    LET rd == ReadCsv(filename) IN
    IF rd.raised THEN CleanRaise(rd.exc)
    ELSE IF "RecordedDate" \notin rd.cols
    THEN CleanRaise(Exc("KeyError", "RecordedDate"))
    ELSE IF \E i \in 1..Len(rd.rows) : ~DateParses(rd.rows[i]["RecordedDate"])
    THEN CleanRaise(Exc("ValueError", "RecordedDate"))
    ELSE
    LET df == ParseDates(rd.rows)
        n_original == Len(df)
        df_date == DateFilter(df, start_date_cutoff)
        dropped_pilot == n_original - Len(df_date)
    IN
    IF FirstMissing(cols_to_numeric, rd.cols) # ""
    THEN CleanRaise(Exc("KeyError", FirstMissing(cols_to_numeric, rd.cols)))
    ELSE
    LET df_num == CoerceNumeric(df_date)
        df_fin == FinishedFilter(df_num)
        n_before_speed == Len(df_fin)
        df_dur == DurationFilter(df_fin)
        dropped_speed == n_before_speed - Len(df_dur)
        n_before_attn == Len(df_dur)
        df_attn == AttentionFilter(df_dur)
        dropped_attn == n_before_attn - Len(df_attn)
        n_before_manip == Len(df_attn)
        df_manip == ManipulationFilter(df_attn, target_manipulation_val)
        dropped_manip == n_before_manip - Len(df_manip)
        n_before_freq == Len(df_manip)
        df_freq == FrequencyFilter(df_manip)
        dropped_freq == n_before_freq - Len(df_freq)
        df_clean == TagCondition(df_freq, label)
    IN  [raised |-> FALSE, exc |-> NoExc, df |-> df_clean,
         report |-> CleaningReport(n_original, dropped_pilot, dropped_speed,
                                   dropped_freq, dropped_attn, dropped_manip,
                                   Len(df_clean))]

\* ----------------------------------------------------------------- inputs
DigitText(n) == <<CHOOSE c \in Digits : DigitVal(c) = n>>

\* A response that passes every stage of both cutoffs for the given target.
GoodRow(target) ==
    ("RecordedDate" :> <<2026, 2, 1>>) @@ ("Finished" :> <<"1">>) @@
    (DURATION_COL :> <<"9", "0">>) @@ (attn_col :> <<"5">>) @@
    (manip_col :> DigitText(target)) @@ (SHOPPING_COL :> <<"6">>)

\* Other texts a cell of the column may hold.
OtherCells(c) ==
    CASE c = "RecordedDate" -> {<<2026, 1, 1>>, <<2025, 12, 31>>, <<>>, <<2026, 13, 45>>}
      [] c = "Finished"     -> {<<"0">>, <<"x">>}
      [] c = DURATION_COL   -> {<<"8", "9">>, <<"x">>}
      [] c = attn_col       -> {<<"4">>, <<"x">>}
      [] c = manip_col      -> {<<"x">>}
      [] c = SHOPPING_COL   -> {<<"7">>, <<>>}

\* Responses that differ from a valid one of the condition in at most one
\* cell, and the valid response of the other condition.
RowPool(target) ==
    {GoodRow(SILENT_TARGET_VAL), GoodRow(AUDIO_TARGET_VAL)} \cup
    UNION {{[GoodRow(target) EXCEPT ![c] = v] : v \in OtherCells(c)} : c \in CellCols}

SeqsUpTo(S, n) == UNION {[1..k -> S] : k \in 0..n}

Pad(n, row) == [i \in 1..n |-> row]

Table(status, cols, rows) == [status |-> status, cols |-> cols, rows |-> rows]

DropColumn(rows, c) ==
    [i \in 1..Len(rows) |-> [k \in (DOMAIN rows[i]) \ {c} |-> rows[i][k]]]

\* Tables of valid responses only, and one file that is not there.
SimpleTables(target) ==
    {Table("ok", AllCols, Pad(n, GoodRow(target))) : n \in 0..MaxPad}
    \cup {Table("missing", {}, <<>>)}

\* Tables with some other responses in front, tables that lack a column,
\* and files that cannot be read.
RichTables(target) ==
    {Table("ok", AllCols, v \o Pad(n, GoodRow(target))) :
        v \in SeqsUpTo(RowPool(target), MaxVaried), n \in 0..MaxPad}
    \cup {Table("ok", AllCols \ {c}, DropColumn(Pad(n, GoodRow(target)), c)) :
        c \in AllCols, n \in {0, 2}}
    \cup {Table("missing", {}, <<>>), Table("unparseable", {}, <<>>)}

Init ==
    /\ \/ \E s \in RichTables(SILENT_TARGET_VAL), a \in SimpleTables(AUDIO_TARGET_VAL) :
             fs = (file_soundless :> s) @@ (file_sound :> a)
       \/ \E s \in SimpleTables(SILENT_TARGET_VAL), a \in RichTables(AUDIO_TARGET_VAL) :
             fs = (file_soundless :> s) @@ (file_sound :> a)
    /\ pc = "clean_silent"
    /\ bound = {}
    /\ df_silent = <<>>
    /\ df_audio = <<>>
    /\ df_all = <<>>
    /\ exc = NoExc
    /\ out = <<>>
    /\ calls = <<>>

\* ---------------------------------------------------------------- actions
\* df_silent = clean_and_process(file_soundless, 'Silent', ...)
CleanSilent ==
    /\ pc = "clean_silent"
    /\ LET r == clean_and_process(file_soundless, "Silent", SILENT_CUTOFF, SILENT_TARGET_VAL)
       IN  IF r.raised
           THEN /\ exc' = r.exc
                /\ pc' = "except"
                /\ UNCHANGED <<df_silent, bound, out>>
           ELSE /\ df_silent' = r.df
                /\ bound' = bound \cup {"df_silent"}
                /\ out' = Append(out, Msg("report", "Silent", "", r.report))
                /\ pc' = "clean_audio"
                /\ UNCHANGED exc
    /\ UNCHANGED <<fs, df_audio, df_all, calls>>

\* df_audio = clean_and_process(file_sound, 'Auditory', ...)
CleanAudio ==
    /\ pc = "clean_audio"
    /\ LET r == clean_and_process(file_sound, "Auditory", AUDIO_CUTOFF, AUDIO_TARGET_VAL)
       IN  IF r.raised
           THEN /\ exc' = r.exc
                /\ pc' = "except"
                /\ UNCHANGED <<df_audio, bound, out>>
           ELSE /\ df_audio' = r.df
                /\ bound' = bound \cup {"df_audio"}
                /\ out' = Append(out, Msg("report", "Auditory", "", r.report))
                /\ pc' = "combine"
                /\ UNCHANGED exc
    /\ UNCHANGED <<fs, df_silent, df_all, calls>>

\* Variant: "and" in place of "or".
InsufficientDataBoth(silent, audio) ==
    Len(silent) < MIN_GROUP_SIZE /\ Len(audio) < MIN_GROUP_SIZE

\* len(df_silent) < 2 or len(df_audio) < 2
InsufficientData(silent, audio) ==
    Len(silent) < MIN_GROUP_SIZE \/ Len(audio) < MIN_GROUP_SIZE

\* the if / else of "Combine and Test", up to df_all = pd.concat(...)
Combine ==
    /\ pc = "combine"
    /\ IF InsufficientData(df_silent, df_audio)
       THEN /\ out' = Append(out, Msg("insufficient",
                        "ERROR: Not enough data left after filtering to run statistics!", "", <<>>))
            /\ pc' = "guard"
            /\ UNCHANGED <<df_all, bound>>
       ELSE /\ df_all' = df_silent \o df_audio
            /\ bound' = bound \cup {"df_all"}
            /\ pc' = "h1"
            /\ UNCHANGED out
    /\ UNCHANGED <<fs, df_silent, df_audio, exc, calls>>

\* H1: stats.mannwhitneyu(...)
MannWhitney ==
    /\ pc = "h1"
    /\ calls' = Append(calls, "mannwhitneyu")
    /\ \E ok \in BOOLEAN :
          IF ok THEN pc' = "h2" /\ UNCHANGED exc
          ELSE pc' = "except" /\ exc' = Exc("ValueError", "mannwhitneyu")
    /\ UNCHANGED <<fs, bound, df_silent, df_audio, df_all, out>>

\* H2: rankdata twice, stats.levene(...), then the FINAL RESULTS lines
Levene ==
    /\ pc = "h2"
    /\ calls' = Append(calls, "levene")
    /\ \E ok \in BOOLEAN :
          IF ok
          THEN /\ pc' = "violin"
               /\ out' = Append(out, Msg("results", "FINAL RESULTS (Strict Filtering)", "", <<>>))
               /\ UNCHANGED exc
          ELSE /\ pc' = "except"
               /\ exc' = Exc("ValueError", "levene")
               /\ UNCHANGED out
    /\ UNCHANGED <<fs, bound, df_silent, df_audio, df_all>>

\* plt.figure, sns.violinplot, plt.title, plt.show
ViolinPlot ==
    /\ pc = "violin"
    /\ calls' = Append(calls, "violinplot")
    /\ \E ok \in BOOLEAN :
          IF ok THEN pc' = "guard" /\ UNCHANGED exc
          ELSE pc' = "except" /\ exc' = Exc("RuntimeError", "violinplot")
    /\ UNCHANGED <<fs, bound, df_silent, df_audio, df_all, out>>

\* except Exception as e: print(f"Error: {e}")
ExceptHandler ==
    /\ pc = "except"
    /\ out' = Append(out, Msg("error", exc.type, exc.detail, <<>>))
    /\ exc' = NoExc
    /\ pc' = "guard"
    /\ UNCHANGED <<fs, bound, df_silent, df_audio, df_all, calls>>

\* Variant: ">=" in place of ">".
ModeratorConditionAtLeast == "df_all" \in bound /\ Len(df_all) >= MODERATOR_MIN_ROWS

\* 'df_all' in locals() and len(df_all) > 10
ModeratorCondition == "df_all" \in bound /\ Len(df_all) > MODERATOR_MIN_ROWS

\* Condition_Code and the renaming of Q5 (Q4 and Q3 are not carried)
PrepareModerators(df) ==
    [i \in 1..Len(df) |->
        [k \in ((DOMAIN df[i]) \ {SHOPPING_COL}) \cup {"Shopping_Freq", "Condition_Code"} |->
            IF k = "Shopping_Freq" THEN df[i][SHOPPING_COL]
            ELSE IF k = "Condition_Code"
                 THEN (IF df[i]["Condition"] = "Auditory" THEN 1 ELSE 0)
                 ELSE df[i][k]]]

\* the guard of the moderator analysis, its banner and "1. Prepare Variables"
ModeratorGuard ==
    /\ pc = "guard"
    /\ IF ModeratorCondition
       THEN /\ out' = Append(out, Msg("banner", "EXPLORATORY MODERATOR ANALYSIS", "", <<>>))
            /\ df_all' = PrepareModerators(df_all)
            /\ pc' = "model_a"
       ELSE /\ pc' = "done"
            /\ UNCHANGED <<out, df_all>>
    /\ UNCHANGED <<fs, bound, df_silent, df_audio, exc, calls>>

\* Variant: the gender fit outside any try / except.
ModelGenderUncaught ==
    /\ pc = "model_a"
    /\ calls' = Append(calls, "ols_gender")
    /\ \E ok \in BOOLEAN :
          IF ok
          THEN /\ out' = Append(out, Msg("model", "[ Interaction Check: GENDER ]", "", <<>>))
               /\ pc' = "model_b"
               /\ UNCHANGED exc
          ELSE /\ exc' = Exc("ValueError", "ols_gender")
               /\ pc' = "crashed"
               /\ UNCHANGED out
    /\ UNCHANGED <<fs, bound, df_silent, df_audio, df_all>>

\* MODEL A: Gender, in its own try / except
ModelGender ==
    /\ pc = "model_a"
    /\ calls' = Append(calls, "ols_gender")
    /\ \E ok \in BOOLEAN :
          IF ok
          THEN out' = Append(out, Msg("model", "[ Interaction Check: GENDER ]", "", <<>>))
          ELSE out' = Append(out, Msg("model_failed", "Gender analysis failed", "ols_gender", <<>>))
    /\ pc' = "model_b"
    /\ UNCHANGED <<fs, bound, df_silent, df_audio, df_all, exc>>

\* MODEL B: Shopping Frequency, in its own try / except
ModelFreq ==
    /\ pc = "model_b"
    /\ calls' = Append(calls, "ols_freq")
    /\ \E ok \in BOOLEAN :
          IF ok
          THEN out' = Append(out, Msg("model", "[ Interaction Check: SHOPPING FREQUENCY ]", "", <<>>))
          ELSE out' = Append(out, Msg("model_failed", "Freq analysis failed", "ols_freq", <<>>))
    /\ pc' = "plots"
    /\ UNCHANGED <<fs, bound, df_silent, df_audio, df_all, exc>>

\* the two interaction plots; nothing catches what they raise
InteractionPlots ==
    /\ pc = "plots"
    /\ calls' = Append(calls, "interaction_plots")
    /\ \E ok \in BOOLEAN :
          IF ok THEN pc' = "done" /\ UNCHANGED exc
          ELSE pc' = "crashed" /\ exc' = Exc("ValueError", "interaction_plots")
    /\ UNCHANGED <<fs, bound, df_silent, df_audio, df_all, out>>

Next ==
    \/ CleanSilent
    \/ CleanAudio
    \/ Combine
    \/ MannWhitney
    \/ Levene
    \/ ViolinPlot
    \/ ExceptHandler
    \/ ModeratorGuard
    \/ ModelGender
    \/ ModelFreq
    \/ InteractionPlots

Spec == Init /\ [][Next]_vars

\* ----------------------------------------------------------------- claims
Printed(kind) == {i \in 1..Len(out) : out[i].kind = kind}
Called(name) == \E i \in 1..Len(calls) : calls[i] = name
ReportOf(label) == {i \in Printed("report") : out[i].text = label}
Rows(file) == fs[file].rows
SumLines(lines, from, to) ==
    LET RECURSIVE S(_)
        S(i) == IF i > to THEN 0 ELSE lines[i][2] + S(i + 1)
    IN  S(from)

\* C1: every record returned by clean_and_process satisfies all six stage
\* predicates at once, with the cutoff and the manipulation target of its
\* own condition (Silent: 2026-01-01 and 5, Auditory: 2026-02-01 and 3).
SurvivorOk(r, cutoffOrd, target) ==
    /\ ~r["RecordedDate"].isnat /\ r["RecordedDate"].ord >= cutoffOrd
    /\ r["Finished"] = Num(1)
    /\ ~r[DURATION_COL].isnan /\ r[DURATION_COL].v >= 90
    /\ r[attn_col] = Num(5)
    /\ r[manip_col] = Num(target)
    /\ ~r[SHOPPING_COL].isnan /\ r[SHOPPING_COL].v <= 6

C1_SurvivorsSatisfyAllStages ==
    /\ "df_silent" \in bound =>
          \A i \in 1..Len(df_silent) : SurvivorOk(df_silent[i], 20260101, 5)
    /\ "df_audio" \in bound =>
          \A i \in 1..Len(df_audio) : SurvivorOk(df_audio[i], 20260201, 3)

\* Both runs returned survivors and the Auditory run removed a response
\* that gave the Silent target.
C1_Witness ==
    /\ "df_silent" \in bound /\ "df_audio" \in bound
    /\ Len(df_silent) > 0 /\ Len(df_audio) > 0
    /\ Len(df_audio) < Len(Rows(file_sound))
    /\ \E i \in 1..Len(Rows(file_sound)) : Rows(file_sound)[i] = GoodRow(5)

\* C2: in every printed cleaning report, original N minus the sum of the
\* printed removed counts equals the printed final N.
C2_ReportBalances ==
    \A i \in Printed("report") :
        out[i].lines[1][2] - SumLines(out[i].lines, 2, 6) = out[i].lines[7][2]

\* C3: once both cleaning runs have returned and one of the record sets has
\* fewer than 2 records, the insufficient-data message is printed, no
\* hypothesis test, plot or regression is called, nothing is raised and both
\* cleaning reports are printed; H1 / H2 are called only with both sets of
\* size at least 2.
C3_InsufficientDataSkipsStatistics ==
    /\ ( /\ "df_silent" \in bound /\ "df_audio" \in bound /\ pc # "combine"
         /\ (Len(df_silent) < 2 \/ Len(df_audio) < 2) )
       => /\ Printed("insufficient") # {}
          /\ calls = <<>>
          /\ "df_all" \notin bound
          /\ exc = NoExc /\ Printed("error") = {} /\ pc \in {"guard", "done"}
          /\ ReportOf("Silent") # {} /\ ReportOf("Auditory") # {}
          /\ \A i \in Printed("report"), j \in Printed("insufficient") : i < j
    /\ (Called("mannwhitneyu") \/ Called("levene")) =>
          /\ "df_silent" \in bound /\ "df_audio" \in bound
          /\ Len(df_silent) >= 2 /\ Len(df_audio) >= 2

\* The run is over, one set is too small although the other is not.
C3_Witness ==
    /\ pc = "done" /\ Printed("insufficient") # {}
    /\ Len(df_silent) >= 2 /\ Len(df_audio) < 2
    /\ Len(Rows(file_sound)) >= 2

\* C4: when a condition's file is missing or unparseable, the run for that
\* condition yields no record set, the error is printed by the top-level
\* handler, and no hypothesis test and no regression is called.
LoadFailed(file) == fs[file].status # "ok"
LoadErrorSurfaced(file) ==
    \/ pc = "except" /\ exc.type \in {"FileNotFoundError", "ParserError"} /\ exc.detail = file
    \/ /\ pc \in {"guard", "done"}
       /\ \E i \in Printed("error") :
             out[i].text \in {"FileNotFoundError", "ParserError"} /\ out[i].detail = file

C4_LoadFailureAbortsRun ==
    /\ (LoadFailed(file_soundless) /\ pc # "clean_silent") =>
          /\ bound = {} /\ df_silent = <<>> /\ calls = <<>>
          /\ LoadErrorSurfaced(file_soundless)
    /\ (LoadFailed(file_sound) /\ "df_silent" \in bound /\ pc # "clean_audio") =>
          /\ bound = {"df_silent"} /\ df_audio = <<>> /\ calls = <<>>
          /\ LoadErrorSurfaced(file_sound)

\* The Silent run returned records, the Auditory file could not be loaded,
\* and the run is over.
C4_Witness ==
    /\ pc = "done" /\ LoadFailed(file_sound)
    /\ "df_silent" \in bound /\ Len(df_silent) >= 2

\* C5: no execution path ends the script with an unhandled exception.
C5_NoUnhandledException == pc # "crashed"

\* C6: each regression step, whether the fit returns or raises, leaves no
\* exception in flight, only adds its own line to the output (the lines of
\* H1 / H2 stay as they are) and hands over to the next step, so a failure
\* of one model never keeps the other from being fitted.
C6_Step(from, to, call) ==
    pc = from =>
        /\ pc' = to
        /\ exc' = NoExc
        /\ Len(out') = Len(out) + 1 /\ SubSeq(out', 1, Len(out)) = out
        /\ out'[Len(out')].kind \in {"model", "model_failed"}
        /\ calls' = Append(calls, call)
        /\ df_silent' = df_silent /\ df_audio' = df_audio /\ df_all' = df_all

C6_FitFailureContained ==
    [][ /\ C6_Step("model_a", "model_b", "ols_gender")
        /\ C6_Step("model_b", "plots", "ols_freq") ]_vars

\* The gender model failed, the frequency model was then fitted and
\* reported, after H1 / H2 had been reported.
C6_Witness ==
    /\ \E i \in Printed("model_failed"), j \in Printed("model"), k \in Printed("results") :
          k < i /\ i < j /\ out[i].detail = "ols_gender"
    /\ pc = "plots"

\* C7: a table with all columns and parseable dates is cleaned without
\* raising whatever text its numeric cells hold, and no surviving record
\* has a missing value in a filtered column: every survivor comes from a
\* row whose five filtered cells are all numeric text.
NumericText(cell) == Len(cell) > 0 /\ \A i \in 1..Len(cell) : cell[i] \in Digits
CleanInput(file) ==
    /\ fs[file].status = "ok" /\ fs[file].cols = AllCols
    /\ \A i \in 1..Len(Rows(file)) :
          LET d == Rows(file)[i]["RecordedDate"] IN d = <<>> \/ d[2] <= 12
WellFormedRows(file) ==
    {i \in 1..Len(Rows(file)) : \A c \in NumericCellCols : NumericText(Rows(file)[i][c])}
NoMissing(df) == \A i \in 1..Len(df) : \A c \in NumericCellCols : ~df[i][c].isnan

C7_MalformedValuesAreRemoved ==
    /\ (CleanInput(file_soundless) /\ pc # "clean_silent") => "df_silent" \in bound
    /\ (CleanInput(file_sound) /\ "df_silent" \in bound /\ pc # "clean_audio")
          => "df_audio" \in bound
    /\ "df_silent" \in bound =>
          NoMissing(df_silent) /\ Len(df_silent) <= Cardinality(WellFormedRows(file_soundless))
    /\ "df_audio" \in bound =>
          NoMissing(df_audio) /\ Len(df_audio) <= Cardinality(WellFormedRows(file_sound))

\* A Silent table with a malformed shopping-frequency cell was cleaned and
\* the other rows survived.
C7_Witness ==
    /\ "df_silent" \in bound /\ Len(df_silent) > 0
    /\ \E i \in 1..Len(Rows(file_soundless)) :
          ~NumericText(Rows(file_soundless)[i][SHOPPING_COL])

\* C8: when a column needed by a filter is absent from a condition's
\* table, clean_and_process still returns a record set and prints its
\* cleaning report.
LacksFilterColumn(file) ==
    /\ fs[file].status = "ok" /\ "RecordedDate" \in fs[file].cols
    /\ \E c \in NumericCellCols : c \notin fs[file].cols

C8_MissingColumnStillReturns ==
    /\ (LacksFilterColumn(file_soundless) /\ pc # "clean_silent") =>
          "df_silent" \in bound /\ ReportOf("Silent") # {}
    /\ (LacksFilterColumn(file_sound) /\ "df_silent" \in bound /\ pc # "clean_audio") =>
          "df_audio" \in bound /\ ReportOf("Auditory") # {}

\* C9: the record set clean_and_process returns equals the one obtained
\* with the duration filter applied before the completion filter.
SwappedChain(file, label, cutoff, target) ==
    LET df_date == DateFilter(ParseDates(Rows(file)), cutoff)
        df_dur == DurationFilter(CoerceNumeric(df_date))
        df_fin == FinishedFilter(df_dur)
    IN  TagCondition(
            FrequencyFilter(ManipulationFilter(AttentionFilter(df_fin), target)), label)

C9_CompletionDurationOrderIrrelevant ==
    /\ "df_silent" \in bound =>
          df_silent = SwappedChain(file_soundless, "Silent", SILENT_CUTOFF, SILENT_TARGET_VAL)
    /\ "df_audio" \in bound =>
          df_audio = SwappedChain(file_sound, "Auditory", AUDIO_CUTOFF, AUDIO_TARGET_VAL)

\* A Silent table with an unfinished response of sufficient duration in
\* front of valid ones was cleaned.
C9_Witness ==
    /\ "df_silent" \in bound /\ Len(df_silent) > 0
    /\ Len(Rows(file_soundless)) > Len(df_silent)
    /\ Rows(file_soundless)[1]["Finished"] = <<"0">>
    /\ Rows(file_soundless)[1][DURATION_COL] = <<"9", "0">>

\* C10: the moderator analysis is entered exactly when df_all was bound
\* and holds more than 10 records; df_all is bound exactly when both runs
\* returned at least 2 records each and the combine step has run; with 10
\* or fewer records nothing is printed about the moderators; a failure of
\* H1, H2 or the violin plot does not keep the analysis from running.
ModeratorsEntered ==
    \/ pc \in {"model_a", "model_b", "plots"}
    \/ Printed("banner") # {}
    \/ Called("ols_gender") \/ Called("ols_freq") \/ Called("interaction_plots")

C10_ModeratorsIffLargeCombinedSet ==
    /\ ModeratorsEntered => "df_all" \in bound /\ Len(df_all) > 10
    /\ pc \in {"done", "crashed"} =>
          /\ (("df_all" \in bound /\ Len(df_all) > 10) <=>
                (Called("ols_gender") /\ Called("ols_freq") /\ Called("interaction_plots")))
          /\ ~("df_all" \in bound /\ Len(df_all) > 10) =>
                Printed("banner") \cup Printed("model") \cup Printed("model_failed") = {}
    /\ "df_all" \in bound <=>
          /\ "df_silent" \in bound /\ "df_audio" \in bound
          /\ pc \notin {"clean_silent", "clean_audio", "combine"}
          /\ Len(df_silent) >= 2 /\ Len(df_audio) >= 2
    /\ "df_all" \in bound => Len(df_all) = Len(df_silent) + Len(df_audio)

\* H1 raised with more than 10 combined records, and both regressions and
\* the interaction plots were still run.
C10_Witness ==
    /\ pc = "done" /\ Len(df_all) > 10
    /\ \E i \in Printed("error") : out[i].detail = "mannwhitneyu"
    /\ Called("ols_gender") /\ Called("ols_freq") /\ Called("interaction_plots")

====
